---------------------------- MODULE Spec2Model ----------------------------
(***************************************************************************)
(* A model of comfy_api_simplified/comfy_api_wrapper.py: the completion    *)
(* wait loop of ComfyApiWrapper.queue_prompt_and_wait and the queue        *)
(* position computation of ComfyApiWrapper.get_queue_size_before.          *)
(*                                                                         *)
(* The client is one call of queue_prompt_and_wait.  The server is the     *)
(* environment: it keeps a pending and a running sequence of jobs, other   *)
(* clients may submit jobs to the same queue, and every event the server   *)
(* emits while the client's websocket is open is appended to that          *)
(* websocket (a reliable FIFO channel).                                    *)
(***************************************************************************)
EXTENDS Integers, Sequences, FiniteSets, TLC

\* Bounds of the model.
MaxOther == 2       \* jobs that other clients submit to the same server queue
MaxChan == 3        \* messages buffered in the websocket, not yet received
MaxTimeouts == 2    \* read timeouts counted (the count saturates here)
MaxQLen == 2        \* length of each sequence of a /queue response (SpecQ)
MaxArtifacts == 2   \* length of each artifact list of a history entry

VARIABLES
    pc,             \* position of queue_prompt_and_wait
    prompt_id,      \* resp["prompt_id"] captured at line 87 (NoId before)
    result,         \* the value returned by queue_prompt_and_wait (NoId: none)
    error,          \* the exception that left queue_prompt_and_wait
    wsOpen,         \* the websocket of the async-with block is open
    chan,           \* messages sent on the websocket and not yet received
    out,            \* the message last returned by websocket.recv() (line 98)
    timeouts,       \* asyncio.TimeoutError caught so far (saturating)
    client_id,      \* str(uuid.uuid4()) of line 84 (NoClient before)
    posts,          \* client_id of every POST /prompt this call has made
    ws_client_id,   \* clientId of the websocket URL opened (NoClient: none)
    queue_pending,  \* server: job identifiers waiting, in order
    queue_running,  \* server: job identifiers executing
    nextId,         \* server: the next job identifier it assigns
    nOther,         \* jobs submitted by other clients so far
    q_prompt_id,    \* argument of the last get_queue_size_before call
    q_result,       \* outcome of the last get_queue_size_before call
    ipc,            \* position of queue_and_wait_images
    history,        \* the response of get_history(prompt_id) (line 138)
    todo,           \* artifacts of the chosen list not yet fetched
    images,         \* the dict under construction: pairs <<filename, bytes>>
    ret,            \* what queue_and_wait_images returned
    ierror,         \* the exception that left queue_and_wait_images
    http_log        \* GET requests made by queue_and_wait_images, in order

vars == <<pc, prompt_id, result, error, wsOpen, chan, out, timeouts,
          client_id, posts, ws_client_id,
          queue_pending, queue_running, nextId, nOther,
          q_prompt_id, q_result,
          ipc, history, todo, images, ret, ierror, http_log>>

callVars == <<client_id, posts, ws_client_id>>
clientVars == <<pc, prompt_id, result, error, out, timeouts, callVars>>
serverVars == <<queue_pending, queue_running, nextId, nOther>>
queryVars == <<q_prompt_id, q_result>>
collectVars == <<ipc, history, todo, images, ret, ierror, http_log>>
waitVars == <<clientVars, wsOpen, chan, serverVars, queryVars>>

NoId == 0
NoClient == "none"
Uuids == {"u1"}     \* values of uuid.uuid4(); they are interchangeable
JobIds == 1..(MaxOther + 1)
None == "None"
NodeIds == {"n1"}

Min(a, b) == IF a < b THEN a ELSE b

SeqsUpTo(S, n) == UNION {[1..k -> S] : k \in 0..n}

(***************************************************************************)
(* Websocket messages.  text is isinstance(out, str); the other fields are *)
(* message["type"], data["prompt_id"], data["node"] and                    *)
(* data["status"]["exec_info"]["queue_remaining"] where the type has them. *)
(***************************************************************************)
Msg(tp, p, n, r) ==
    [text |-> TRUE, type |-> tp, prompt_id |-> p, node |-> n, queue_remaining |-> r]

MonitorMsg == Msg("crystools.monitor", NoId, None, -1)
ProgressMsg == Msg("progress", NoId, None, -1)
BinaryMsg == [text |-> FALSE, type |-> "bytes", prompt_id |-> NoId,
              node |-> None, queue_remaining |-> -1]
NoMsg == [text |-> FALSE, type |-> "none", prompt_id |-> NoId,
          node |-> None, queue_remaining |-> -1]
ExecutionErrorMsg(p) == Msg("execution_error", p, None, -1)
StatusMsg(r) == Msg("status", NoId, None, r)
ExecutingMsg(p, n) == Msg("executing", p, n, -1)

(***************************************************************************)
(* Classification of one received message, lines 99-115.                   *)
(***************************************************************************)
\* line 101: if message["type"] == "crystools.monitor": continue
IsHeartbeat(message) == message.type = "crystools.monitor"

\* mutant: the execution_error branch never raises
ExecutionErrorRaised_never(message, pid) == FALSE

\* mutant: the execution_error branch does not compare data["prompt_id"]
ExecutionErrorRaised_anyjob(message, pid) == message.type = "execution_error"

\* lines 104-107: execution_error whose data["prompt_id"] is ours raises
ExecutionErrorRaised(message, pid) ==
    /\ message.type = "execution_error"
    /\ message.prompt_id = pid

\* mutant: every status event resolves, whatever its counter
StatusResolves_anycount(message) == message.type = "status"

\* mutant: the counter is compared with <= 1 instead of == 0
StatusResolves_atmostone(message) ==
    /\ message.type = "status"
    /\ message.queue_remaining <= 1

\* lines 108-111: status whose queue_remaining is 0 returns prompt_id
StatusResolves(message) ==
    /\ message.type = "status"
    /\ message.queue_remaining = 0

\* mutant: the executing branch does not compare data["prompt_id"]
ExecutingResolves_anyjob(message, pid) ==
    /\ message.type = "executing"
    /\ message.node = None

\* mutant: the node test is inverted (is not None)
ExecutingResolves_notnone(message, pid) ==
    /\ message.type = "executing"
    /\ message.node /= None
    /\ message.prompt_id = pid

\* lines 112-115: executing with node None and our prompt_id returns prompt_id
ExecutingResolves(message, pid) ==
    /\ message.type = "executing"
    /\ message.node = None
    /\ message.prompt_id = pid

\* mutant: a message of an unrecognised type is taken for the end of the job
on_message_unknown_returns(message, pid) ==
    IF ~message.text THEN "continue"
    ELSE IF message.type = "crystools.monitor" THEN "continue"
    ELSE IF message.type = "execution_error"
        THEN (IF message.prompt_id = pid THEN "raise" ELSE "continue")
    ELSE IF message.type = "status"
        THEN (IF message.queue_remaining = 0 THEN "return" ELSE "continue")
    ELSE IF message.type = "executing"
        THEN (IF message.node = None /\ message.prompt_id = pid
              THEN "return" ELSE "continue")
    ELSE "return"

\* mutant: the heartbeat branch returns instead of continuing
on_message_heartbeat_returns(message, pid) ==
    IF ~message.text THEN "continue"
    ELSE IF message.type = "crystools.monitor" THEN "return"
    ELSE IF message.type = "execution_error" /\ message.prompt_id = pid THEN "raise"
    ELSE IF message.type = "status" /\ message.queue_remaining = 0 THEN "return"
    ELSE IF message.type = "executing" /\ message.node = None
            /\ message.prompt_id = pid THEN "return"
    ELSE "continue"

\* The body of the try block for one message: "continue" goes back to recv,
\* "raise" leaves with the execution error, "return" returns prompt_id.
on_message(message, pid) ==
    IF ~message.text THEN "continue"             \* line 99: not a str
    ELSE IF IsHeartbeat(message) THEN "continue"
    ELSE IF ExecutionErrorRaised(message, pid) THEN "raise"
    ELSE IF StatusResolves(message) THEN "return"
    ELSE IF ExecutingResolves(message, pid) THEN "return"
    ELSE "continue"

(***************************************************************************)
(* The server, as the client sees it through POST /prompt, GET /queue and  *)
(* the websocket.                                                          *)
(***************************************************************************)
\* the queue-remaining counter of a status event: jobs pending or running
QueueRemaining(pending, running) == Len(pending) + Len(running)

\* room for k more messages in the websocket (nothing is buffered when closed)
CanEmit(k) == wsOpen => Len(chan) + k <= MaxChan

\* the server sends msgs; they reach the client only on an open websocket
Emit(msgs) == chan' = IF wsOpen THEN chan \o msgs ELSE chan

\* another client's POST /prompt is accepted
OtherSubmit ==
    /\ nOther < MaxOther
    /\ CanEmit(1)
    /\ queue_pending' = Append(queue_pending, nextId)
    /\ nextId' = nextId + 1
    /\ nOther' = nOther + 1
    /\ Emit(<<StatusMsg(QueueRemaining(queue_pending', queue_running))>>)
    /\ UNCHANGED <<queue_running, clientVars, wsOpen, queryVars, collectVars>>

\* the server takes the head of the pending sequence and starts executing it
ServerStart ==
    /\ queue_running = <<>>
    /\ queue_pending /= <<>>
    /\ CanEmit(1)
    /\ queue_running' = <<Head(queue_pending)>>
    /\ queue_pending' = Tail(queue_pending)
    /\ Emit(<<StatusMsg(QueueRemaining(queue_pending', queue_running'))>>)
    /\ UNCHANGED <<nextId, nOther, clientVars, wsOpen, queryVars, collectVars>>

\* the running job enters a node: executing with a node identifier
ServerNode ==
    /\ queue_running /= <<>>
    /\ wsOpen
    /\ CanEmit(1)
    /\ \E n \in NodeIds : Emit(<<ExecutingMsg(Head(queue_running), n)>>)
    /\ UNCHANGED <<serverVars, clientVars, wsOpen, queryVars, collectVars>>

\* the running job finishes: the queue update (status) and the final
\* executing event with node None, in either order
ServerFinish ==
    /\ queue_running /= <<>>
    /\ CanEmit(2)
    /\ queue_running' = <<>>
    /\ LET st == StatusMsg(QueueRemaining(queue_pending, queue_running'))
           ex == ExecutingMsg(Head(queue_running), None)
       IN  \/ Emit(<<st, ex>>)
           \/ Emit(<<ex, st>>)
    /\ UNCHANGED <<queue_pending, nextId, nOther, clientVars, wsOpen, queryVars, collectVars>>

\* the running job fails: execution_error, then the queue update
ServerFail ==
    /\ queue_running /= <<>>
    /\ CanEmit(2)
    /\ queue_running' = <<>>
    /\ Emit(<<ExecutionErrorMsg(Head(queue_running)),
              StatusMsg(QueueRemaining(queue_pending, queue_running'))>>)
    /\ UNCHANGED <<queue_pending, nextId, nOther, clientVars, wsOpen, queryVars, collectVars>>

\* telemetry, an event of another type, or a binary frame (preview image)
ServerNoise ==
    /\ wsOpen
    /\ CanEmit(1)
    /\ \E m \in {MonitorMsg, ProgressMsg, BinaryMsg} : Emit(<<m>>)
    /\ UNCHANGED <<serverVars, clientVars, wsOpen, queryVars, collectVars>>

(***************************************************************************)
(* queue_prompt_and_wait, lines 84-118.                                    *)
(***************************************************************************)
\* mutant: a rejected POST /prompt is sent again
QueuePrompt_retries ==
    /\ pc = "start"
    /\ \E u \in Uuids :
          /\ client_id' = u
          /\ posts' = Append(posts, u)
    /\ \/ /\ queue_pending' = Append(queue_pending, nextId)
          /\ nextId' = nextId + 1
          /\ prompt_id' = nextId
          /\ pc' = "submitted"
          /\ UNCHANGED error
       \/ /\ Len(posts) < 2
          /\ UNCHANGED <<pc, error, queue_pending, nextId, prompt_id>>
       \/ /\ pc' = "failed"
          /\ error' = "KeyError"
          /\ UNCHANGED <<queue_pending, nextId, prompt_id>>
    /\ UNCHANGED <<result, out, timeouts, ws_client_id, wsOpen, chan,
                   queue_running, nOther, queryVars, collectVars>>

\* lines 84-87: queue_prompt(prompt, client_id) and resp["prompt_id"]
QueuePrompt ==
    /\ pc = "start"
    /\ \E u \in Uuids :                                      \* line 84
          /\ client_id' = u
          /\ posts' = Append(posts, u)                        \* line 62
    /\ \/ /\ queue_pending' = Append(queue_pending, nextId)   \* 200, accepted
          /\ nextId' = nextId + 1
          /\ prompt_id' = nextId
          /\ pc' = "submitted"
          /\ UNCHANGED error
       \/ /\ pc' = "failed"                                   \* line 67: not 200
          /\ error' = "RequestFailed"
          /\ UNCHANGED <<queue_pending, nextId, prompt_id>>
       \/ /\ pc' = "failed"                                   \* line 87: KeyError
          /\ error' = "KeyError"
          /\ UNCHANGED <<queue_pending, nextId, prompt_id>>
    /\ UNCHANGED <<result, out, timeouts, ws_client_id, wsOpen, chan,
                   queue_running, nOther, queryVars, collectVars>>

\* lines 91-95: websockets.connect; on connection the server may send the
\* current queue status to the new websocket
Connect ==
    /\ pc = "submitted"
    /\ \/ /\ pc' = "waiting"
          /\ wsOpen' = TRUE
          /\ ws_client_id' = client_id                        \* line 92
          /\ \/ chan' = <<>>
             \/ chan' = <<StatusMsg(QueueRemaining(queue_pending, queue_running))>>
          /\ UNCHANGED error
       \/ /\ pc' = "failed"
          /\ error' = "ConnectFailed"
          /\ UNCHANGED <<wsOpen, chan, ws_client_id>>
    /\ UNCHANGED <<prompt_id, result, out, timeouts, client_id, posts,
                   serverVars, queryVars, collectVars>>

\* mutant: the websocket is not closed when the execution error is raised
Recv_leaks ==
    /\ pc = "waiting"
    /\ chan /= <<>>
    /\ out' = Head(chan)
    /\ LET outcome == on_message(Head(chan), prompt_id)
       IN  CASE outcome = "continue" ->
                  /\ chan' = Tail(chan)
                  /\ UNCHANGED <<pc, result, error, wsOpen>>
             [] outcome = "return" ->
                  /\ pc' = "returned"
                  /\ result' = prompt_id
                  /\ wsOpen' = FALSE
                  /\ chan' = <<>>
                  /\ UNCHANGED error
             [] outcome = "raise" ->
                  /\ pc' = "failed"
                  /\ error' = "ExecutionError"
                  /\ chan' = Tail(chan)
                  /\ UNCHANGED <<result, wsOpen>>
    /\ UNCHANGED <<prompt_id, timeouts, callVars, serverVars, queryVars, collectVars>>

\* lines 98-115: one websocket.recv() that delivers a message; leaving the
\* async-with block by return or raise closes the websocket
Recv ==
    /\ pc = "waiting"
    /\ chan /= <<>>
    /\ out' = Head(chan)
    /\ LET outcome == on_message(Head(chan), prompt_id)
       IN  CASE outcome = "continue" ->
                  /\ chan' = Tail(chan)
                  /\ UNCHANGED <<pc, result, error, wsOpen>>
             [] outcome = "return" ->
                  /\ pc' = "returned"
                  /\ result' = prompt_id
                  /\ wsOpen' = FALSE
                  /\ chan' = <<>>
                  /\ UNCHANGED error
             [] outcome = "raise" ->
                  /\ pc' = "failed"
                  /\ error' = "ExecutionError"
                  /\ wsOpen' = FALSE
                  /\ chan' = <<>>
                  /\ UNCHANGED result
    /\ UNCHANGED <<prompt_id, timeouts, callVars, serverVars, queryVars, collectVars>>

\* mutant: the read is retried once, a second timeout aborts the wait
ReadTimeout_limited ==
    /\ pc = "waiting"
    /\ IF timeouts < 1
       THEN /\ timeouts' = timeouts + 1
            /\ UNCHANGED <<pc, error, wsOpen>>
       ELSE /\ pc' = "failed"
            /\ error' = "TimeoutError"
            /\ wsOpen' = FALSE
            /\ UNCHANGED timeouts
    /\ UNCHANGED <<prompt_id, result, out, chan, callVars, serverVars, queryVars, collectVars>>

\* lines 116-118: no message was received within the read timeout (a message
\* sent may still be in transit); print and continue
ReadTimeout ==
    /\ pc = "waiting"
    /\ timeouts' = Min(timeouts + 1, MaxTimeouts)
    /\ UNCHANGED <<pc, prompt_id, result, error, out, wsOpen, chan, callVars,
                   serverVars, queryVars, collectVars>>

(***************************************************************************)
(* get_queue and get_queue_size_before, lines 190-224.                     *)
(***************************************************************************)
\* one tuple of a /queue response: the job identifier is at index 1 (0-based)
QueueEntries(ids) == [i \in DOMAIN ids |-> <<i, ids[i]>>]

\* mutant: the response leaves out the running jobs
get_queue_pending_only ==
    [queue_running |-> <<>>,
     queue_pending |-> QueueEntries(queue_pending)]

\* lines 190-194: the 200 response of GET /queue
get_queue ==
    [queue_running |-> QueueEntries(queue_running),
     queue_pending |-> QueueEntries(queue_pending)]

\* mutant: only the first running entry is compared
scan_running_first(elems, pid) == elems /= <<>> /\ Head(elems)[2] = pid

\* lines 215-217: for elem in resp["queue_running"]: if elem[1] == prompt_id
RECURSIVE scan_running(_, _)
scan_running(elems, pid) ==
    IF elems = <<>> THEN FALSE
    ELSE IF Head(elems)[2] = pid THEN TRUE
    ELSE scan_running(Tail(elems), pid)

\* mutant: falling off the pending loop returns the counter instead of raising
scan_pending_noraise(elems, pid, res) ==
    LET hits == {i \in DOMAIN elems : elems[i][2] = pid}
    IN  IF hits = {} THEN <<"return", res + Len(elems)>>
        ELSE <<"return", res + (CHOOSE i \in hits : \A j \in hits : i <= j) - 1>>

\* lines 220-224: the pending loop with its counter, then raise ValueError
RECURSIVE scan_pending(_, _, _)
scan_pending(elems, pid, res) ==
    IF elems = <<>> THEN <<"ValueError", 0>>
    ELSE IF Head(elems)[2] = pid THEN <<"return", res>>
    ELSE scan_pending(Tail(elems), pid, res + 1)

\* mutant: the pending counter starts at 0
get_queue_size_before_zero(resp, pid) ==
    LET hits == {i \in DOMAIN resp.queue_pending : resp.queue_pending[i][2] = pid}
    IN  IF \E i \in DOMAIN resp.queue_running : resp.queue_running[i][2] = pid
        THEN <<"return", 0>>
        ELSE IF hits = {} THEN <<"ValueError", 0>>
        ELSE <<"return", (CHOOSE i \in hits : \A j \in hits : i <= j) - 1>>

\* lines 215-224 on a fetched response
get_queue_size_before(resp, pid) ==
    IF scan_running(resp.queue_running, pid) THEN <<"return", 0>>
    ELSE scan_pending(resp.queue_pending, pid, 1)

\* one call of get_queue_size_before(pid): GET /queue answers 200 or not
GetQueueSizeBefore ==
    /\ \E pid \in JobIds :
          /\ q_prompt_id' = pid
          /\ \/ q_result' = get_queue_size_before(get_queue, pid)
             \/ q_result' = <<"RequestFailed", 0>>          \* line 196
    /\ UNCHANGED <<clientVars, wsOpen, chan, serverVars, collectVars>>

\* get_queue_size_before called for the job queue_prompt_and_wait has
\* submitted, at any moment from the acceptance of the job on
InspectOwn ==
    /\ prompt_id /= NoId
    /\ q_prompt_id' = prompt_id
    /\ \/ q_result' = get_queue_size_before(get_queue, prompt_id)
       \/ q_result' = <<"RequestFailed", 0>>                \* line 196
    /\ UNCHANGED <<clientVars, wsOpen, chan, serverVars, collectVars>>

(***************************************************************************)
(* queue_and_wait_images, lines 136-178, with get_history (239-247) and    *)
(* get_image (264-274).                                                    *)
(***************************************************************************)
Kinds == {"images", "gifs", "videos"}

Artifact(f, sub, t) == [filename |-> f, subfolder |-> sub, type |-> t]
Artifacts ==
    {Artifact("a.png", "", "output"), Artifact("b.gif", "sub", "temp"),
     Artifact("a.png", "sub", "output")}
ArtifactLists == SeqsUpTo(Artifacts, MaxArtifacts)

\* the bytes the server stores under (filename, subfolder, type)
Content(f, sub, t) == <<"bytes", f, sub, t>>

\* prompt.get_node_id(output_node_title), line 139, and another output node
OutputNode == "7"
OtherNode == "9"

\* history[prompt_id]["outputs"][output_node_id]: the keys present and the
\* list under each (empty for a key that is not present)
NoData == [keys |-> {}, images |-> <<>>, gifs |-> <<>>, videos |-> <<>>]
OutputDatas ==
    {d \in [keys : SUBSET Kinds, images : ArtifactLists,
            gifs : ArtifactLists, videos : ArtifactLists] :
        \A k \in Kinds \ d.keys : d[k] = <<>>}

\* a 200 response of GET /history/{prompt_id}: is prompt_id a key, has its
\* record an "outputs" key, which nodes are keys of outputs, and the entry of
\* the output node
HistoryResponse(hp, ho, ns, d) ==
    [got |-> TRUE, has_prompt |-> hp, has_outputs |-> ho, nodes |-> ns,
     output_data |-> d]
NoHistory ==
    [got |-> FALSE, has_prompt |-> FALSE, has_outputs |-> FALSE, nodes |-> {},
     output_data |-> NoData]
HistoryResponses ==
    {HistoryResponse(FALSE, FALSE, {}, NoData),
     HistoryResponse(TRUE, FALSE, {}, NoData),
     HistoryResponse(TRUE, TRUE, {}, NoData),
     HistoryResponse(TRUE, TRUE, {OtherNode}, NoData)}
    \cup {HistoryResponse(TRUE, TRUE, {OutputNode}, d) : d \in OutputDatas}

\* the responses used where the whole wait runs before the collection
HistorySamples ==
    {HistoryResponse(FALSE, FALSE, {}, NoData),
     HistoryResponse(TRUE, TRUE, {OutputNode},
        [keys |-> {"images"}, images |-> <<Artifact("a.png", "", "output")>>,
         gifs |-> <<>>, videos |-> <<>>])}

\* one GET logged: the history of a job, or /view of an artifact
HistoryRequest(pid, ok) ==
    [req |-> "history", id |-> pid, filename |-> "", subfolder |-> "",
     type |-> "", ok |-> ok]
ViewRequest(f, sub, t, ok) ==
    [req |-> "view", id |-> NoId, filename |-> f, subfolder |-> sub,
     type |-> t, ok |-> ok]

\* a dict as a set of <<key, value>> pairs; a later key replaces an earlier
DictPut(d, k, v) == {e \in d : e[1] /= k} \cup {<<k, v>>}

NotReturned == [done |-> FALSE, value |-> {}]
Returned(d) == [done |-> TRUE, value |-> d]

\* lines 145-152: the three membership checks on the history response
history_checks(h, node) ==
    IF ~h.has_prompt THEN "KeyError"
    ELSE IF ~h.has_outputs THEN "KeyError"
    ELSE IF node \notin h.nodes THEN "KeyError"
    ELSE "ok"

\* mutant: gifs are looked for before images
choose_artifacts_gifs_first(output_data) ==
    IF "gifs" \in output_data.keys THEN <<"ok", output_data.gifs>>
    ELSE IF "images" \in output_data.keys THEN <<"ok", output_data.images>>
    ELSE IF "videos" \in output_data.keys THEN <<"ok", output_data.videos>>
    ELSE <<"KeyError", <<>>>>

\* mutant: an entry with none of the three keys yields an empty dict
choose_artifacts_default_empty(output_data) ==
    IF "images" \in output_data.keys THEN <<"ok", output_data.images>>
    ELSE IF "gifs" \in output_data.keys THEN <<"ok", output_data.gifs>>
    ELSE IF "videos" \in output_data.keys THEN <<"ok", output_data.videos>>
    ELSE <<"ok", <<>>>>

\* lines 156-178: if "images" in output_data / elif "gifs" / elif "videos" /
\* else raise KeyError: the list the comprehension iterates over
choose_artifacts(output_data) ==
    IF "images" \in output_data.keys THEN <<"ok", output_data.images>>
    ELSE IF "gifs" \in output_data.keys THEN <<"ok", output_data.gifs>>
    ELSE IF "videos" \in output_data.keys THEN <<"ok", output_data.videos>>
    ELSE <<"KeyError", <<>>>>

\* lines 264-270: the 200 response of /view for the three parameters
get_image(filename, subfolder, folder_type) ==
    Content(filename, subfolder, folder_type)

\* mutant: get_history is called although the wait has not returned
CollectStart_early(responses) ==
    /\ ipc = "wait"
    /\ pc \in {"waiting", "returned"}
    /\ \E h \in responses :
          /\ history' = h
          /\ http_log' = Append(http_log, HistoryRequest(prompt_id, TRUE))
          /\ ipc' = "failed"
          /\ ierror' = "KeyError"
          /\ UNCHANGED <<todo, images, ret>>
    /\ UNCHANGED waitVars

\* lines 137-162: the wait has returned prompt_id; get_history, the checks,
\* the choice of the artifact list; an empty list returns the empty dict
CollectStart(responses) ==
    /\ ipc = "wait"
    /\ pc = "returned"
    /\ \/ /\ http_log' = Append(http_log, HistoryRequest(result, FALSE))
          /\ ipc' = "failed"                                 \* line 245: not 200
          /\ ierror' = "RequestFailed"
          /\ UNCHANGED <<history, todo, images, ret>>
       \/ \E h \in responses :
            /\ http_log' = Append(http_log, HistoryRequest(result, TRUE))
            /\ history' = h
            /\ LET chosen == choose_artifacts(h.output_data)
               IN  IF history_checks(h, OutputNode) /= "ok" \/ chosen[1] /= "ok"
                   THEN /\ ipc' = "failed"
                        /\ ierror' = "KeyError"
                        /\ UNCHANGED <<todo, images, ret>>
                   ELSE /\ todo' = chosen[2]
                        /\ images' = {}
                        /\ ipc' = IF chosen[2] = <<>> THEN "done" ELSE "fetching"
                        /\ ret' = IF chosen[2] = <<>> THEN Returned({}) ELSE ret
                        /\ UNCHANGED ierror
    /\ UNCHANGED waitVars

\* line 137: queue_prompt_and_wait raised; the exception leaves
\* queue_and_wait_images
WaitRaised ==
    /\ ipc = "wait"
    /\ pc = "failed"
    /\ ipc' = "failed"
    /\ ierror' = error
    /\ UNCHANGED <<history, todo, images, ret, http_log>>
    /\ UNCHANGED waitVars

\* mutant: an artifact whose fetch fails is left out and the loop goes on
FetchImage_skips ==
    /\ ipc = "fetching"
    /\ LET art == Head(todo)
       IN  \E ok \in BOOLEAN :
             /\ http_log' = Append(http_log,
                   ViewRequest(art.filename, art.subfolder, art.type, ok))
             /\ images' = IF ok
                          THEN DictPut(images, art.filename,
                                  get_image(art.filename, art.subfolder, art.type))
                          ELSE images
             /\ todo' = Tail(todo)
             /\ ipc' = IF todo' = <<>> THEN "done" ELSE "fetching"
             /\ ret' = IF todo' = <<>> THEN Returned(images') ELSE ret
             /\ UNCHANGED <<history, ierror>>
    /\ UNCHANGED waitVars

\* lines 157-176: one step of the dict comprehension, get_image of the next
\* artifact; after the last one the dict is returned
FetchImage ==
    /\ ipc = "fetching"
    /\ LET art == Head(todo)
       IN  \/ /\ http_log' = Append(http_log,
                    ViewRequest(art.filename, art.subfolder, art.type, TRUE))
              /\ images' = DictPut(images, art.filename,
                              get_image(art.filename, art.subfolder, art.type))
              /\ todo' = Tail(todo)
              /\ ipc' = IF todo' = <<>> THEN "done" ELSE "fetching"
              /\ ret' = IF todo' = <<>> THEN Returned(images') ELSE ret
              /\ UNCHANGED <<history, ierror>>
           \/ /\ http_log' = Append(http_log,                \* line 272: not 200
                    ViewRequest(art.filename, art.subfolder, art.type, FALSE))
              /\ ipc' = "failed"
              /\ ierror' = "RequestFailed"
              /\ UNCHANGED <<history, todo, images, ret>>
    /\ UNCHANGED waitVars

CollectInit ==
    /\ ipc = "wait"
    /\ history = NoHistory
    /\ todo = <<>>
    /\ images = {}
    /\ ret = NotReturned
    /\ ierror = "none"
    /\ http_log = <<>>

Init ==
    /\ pc = "start"
    /\ prompt_id = NoId
    /\ result = NoId
    /\ error = "none"
    /\ wsOpen = FALSE
    /\ chan = <<>>
    /\ out = NoMsg
    /\ timeouts = 0
    /\ client_id = NoClient
    /\ posts = <<>>
    /\ ws_client_id = NoClient
    /\ queue_pending = <<>>
    /\ queue_running = <<>>
    /\ nextId = 1
    /\ nOther = 0
    /\ q_prompt_id = NoId
    /\ q_result = <<"none", 0>>
    /\ CollectInit

Next ==
    \/ QueuePrompt
    \/ Connect
    \/ Recv
    \/ ReadTimeout
    \/ OtherSubmit
    \/ ServerStart
    \/ ServerNode
    \/ ServerFinish
    \/ ServerFail
    \/ ServerNoise

Spec == Init /\ [][Next]_vars

(***************************************************************************)
(* get_queue_size_before on arbitrary /queue responses: the two sequences  *)
(* are drawn from all sequences of job identifiers up to MaxQLen, with     *)
(* repetitions and with identifiers present in both.                       *)
(***************************************************************************)
InitQ ==
    /\ pc = "start"
    /\ prompt_id = NoId
    /\ result = NoId
    /\ error = "none"
    /\ wsOpen = FALSE
    /\ chan = <<>>
    /\ out = NoMsg
    /\ timeouts = 0
    /\ client_id = NoClient
    /\ posts = <<>>
    /\ ws_client_id = NoClient
    /\ queue_pending \in SeqsUpTo(JobIds, MaxQLen)
    /\ queue_running \in SeqsUpTo(JobIds, MaxQLen)
    /\ nextId = 1
    /\ nOther = 0
    /\ q_prompt_id = NoId
    /\ q_result = <<"none", 0>>
    /\ CollectInit

NextQ == GetQueueSizeBefore

SpecQ == InitQ /\ [][NextQ]_vars

(***************************************************************************)
(* queue_and_wait_images from the moment queue_prompt_and_wait has ended   *)
(* (returned a job identifier or raised), on every history response.       *)
(***************************************************************************)
InitC ==
    /\ \/ /\ pc = "returned"
          /\ prompt_id \in JobIds
          /\ result = prompt_id
          /\ error = "none"
       \/ /\ pc = "failed"
          /\ prompt_id \in JobIds
          /\ result = NoId
          /\ error = "ExecutionError"
    /\ wsOpen = FALSE
    /\ chan = <<>>
    /\ out = NoMsg
    /\ timeouts = 0
    /\ client_id \in Uuids
    /\ posts = <<client_id>>
    /\ ws_client_id = client_id
    /\ queue_pending = <<>>
    /\ queue_running = <<>>
    /\ nextId = MaxOther + 2
    /\ nOther = MaxOther
    /\ q_prompt_id = NoId
    /\ q_result = <<"none", 0>>
    /\ CollectInit

NextC ==
    \/ CollectStart(HistoryResponses)
    \/ WaitRaised
    \/ FetchImage

SpecC == InitC /\ [][NextC]_vars

(***************************************************************************)
(* queue_and_wait_images as a whole: the wait of Spec, then the collection *)
(* on sample history responses.                                            *)
(***************************************************************************)
NextI ==
    \/ Next
    \/ CollectStart(HistorySamples)
    \/ WaitRaised
    \/ FetchImage

SpecI == Init /\ [][NextI]_vars

(***************************************************************************)
(* The wait with the queue inspected for the submitted job while it runs.  *)
(* Read timeouts and the messages the server sends outside the execution   *)
(* of a job touch neither the queue nor the order of the job's events and  *)
(* are left out.                                                           *)
(***************************************************************************)
NextR ==
    \/ QueuePrompt
    \/ Connect
    \/ Recv
    \/ OtherSubmit
    \/ ServerStart
    \/ ServerNode
    \/ ServerFinish
    \/ ServerFail
    \/ InspectOwn

SpecR == Init /\ [][NextR]_vars

(***************************************************************************)
(* The wait for a job the server executes to the end (no job fails), with  *)
(* the progress the code and the server guarantee: the client goes on to   *)
(* open the websocket and reads every message that is waiting for it, the  *)
(* server starts the next job and finishes the running one.  Nothing       *)
(* obliges other clients to submit, the server to send messages outside    *)
(* the execution of a job, or a read to time out.                          *)
(***************************************************************************)
NextF ==
    \/ QueuePrompt
    \/ Connect
    \/ Recv
    \/ ReadTimeout
    \/ OtherSubmit
    \/ ServerStart
    \/ ServerNode
    \/ ServerFinish
    \/ ServerNoise

SpecFair ==
    /\ Init
    /\ [][NextF]_vars
    /\ WF_vars(QueuePrompt)
    /\ WF_vars(Connect)
    /\ WF_vars(Recv)
    /\ WF_vars(ServerStart)
    /\ WF_vars(ServerFinish)

(***************************************************************************)
(* Properties.                                                             *)
(***************************************************************************)
Range(seq) == {seq[i] : i \in DOMAIN seq}

\* this step is a websocket.recv() that delivered the head of the channel
Receives == pc = "waiting" /\ chan /= <<>> /\ Len(chan') < Len(chan)

\* the three terminal events of the wait for job pid
TerminalExecuting(m, pid) ==
    m.text /\ m.type = "executing" /\ m.node = None /\ m.prompt_id = pid
MatchingError(m, pid) ==
    m.text /\ m.type = "execution_error" /\ m.prompt_id = pid
DrainedStatus(m) ==
    m.text /\ m.type = "status" /\ m.queue_remaining = 0
TerminalFor(m, pid) ==
    TerminalExecuting(m, pid) \/ MatchingError(m, pid) \/ DrainedStatus(m)

\* C1: when the wait loop receives an `executing` event with node None and
\* the captured job identifier, queue_prompt_and_wait returns that
\* identifier; once it has returned, it receives no further message and its
\* result never changes (it returns exactly once).
C1_ExecutingTerminalReturnsOnce ==
    [][ /\ (Receives /\ TerminalExecuting(Head(chan), prompt_id))
            => (pc' = "returned" /\ result' = prompt_id /\ prompt_id /= NoId)
        /\ (pc = "returned")
            => (pc' = "returned" /\ result' = result /\ out' = out /\ ~Receives)
      ]_vars

C1_Witness ==
    /\ pc = "returned"
    /\ TerminalExecuting(out, prompt_id)
    /\ result = prompt_id

C3_ReturnedOnlyAfterJobLeftQueue ==
    pc = "returned"
        => /\ result = prompt_id
           /\ prompt_id /= NoId
           /\ prompt_id \notin Range(queue_pending) \cup Range(queue_running)

C3_Witness ==
    /\ pc = "returned"
    /\ nOther > 0
    /\ QueueRemaining(queue_pending, queue_running) > 0
    /\ TerminalExecuting(out, prompt_id)

\* C4: receiving a `crystools.monitor` event never ends the wait: after it
\* the loop is still waiting on the open websocket, nothing is returned and
\* the captured job identifier is unchanged.
C4_HeartbeatNeverTerminates ==
    [][ (Receives /\ Head(chan).text /\ Head(chan).type = "crystools.monitor")
            => /\ pc' = "waiting"
               /\ wsOpen'
               /\ prompt_id' = prompt_id
               /\ result' = NoId
               /\ error' = "none"
      ]_vars

C4_Witness ==
    /\ pc = "waiting"
    /\ out = MonitorMsg
    /\ chan /= <<>>
    /\ Head(chan) = MonitorMsg
    /\ timeouts > 0

\* C5: receiving a `status` event returns the job identifier captured at
\* submission if and only if its queue_remaining counter is 0; with any
\* other counter the wait goes on.  No job identifier takes part.
C5_StatusResolvesIffZero ==
    [][ (Receives /\ Head(chan).text /\ Head(chan).type = "status")
            => IF Head(chan).queue_remaining = 0
               THEN pc' = "returned" /\ result' = prompt_id /\ error' = "none"
               ELSE pc' = "waiting" /\ result' = NoId /\ error' = "none" /\ wsOpen'
      ]_vars

C5_Witness ==
    /\ pc = "returned"
    /\ DrainedStatus(out)
    /\ result = prompt_id
    /\ nOther > 0

\* C6: receiving an `execution_error` event whose job identifier differs
\* from the captured one neither fails nor resolves the wait; the loop
\* drops it and reads on.
C6_ForeignErrorIgnored ==
    [][ (Receives /\ Head(chan).text /\ Head(chan).type = "execution_error"
                  /\ Head(chan).prompt_id /= prompt_id)
            => /\ pc' = "waiting"
               /\ wsOpen'
               /\ result' = NoId
               /\ error' = "none"
               /\ chan' = Tail(chan)
      ]_vars

C6_Witness ==
    /\ pc = "waiting"
    /\ out.text
    /\ out.type = "execution_error"
    /\ out.prompt_id /= prompt_id
    /\ out.prompt_id /= NoId

\* C7: a read timeout leaves the wait running on the same websocket, at
\* every timeout count; the wait only ever ends on receiving a terminal
\* event, and a terminal event received after any number of timeouts still
\* ends it.
C7_TimeoutsNeverAbort ==
    [][ /\ (timeouts' /= timeouts)
            => (pc = "waiting" /\ pc' = "waiting" /\ wsOpen' /\ chan' = chan)
        /\ (pc = "waiting" /\ pc' /= "waiting")
            => (Receives /\ TerminalFor(Head(chan), prompt_id))
        /\ (Receives /\ TerminalFor(Head(chan), prompt_id))
            => pc' \in {"returned", "failed"}
      ]_vars

C7_Witness ==
    /\ pc = "returned"
    /\ timeouts = MaxTimeouts
    /\ TerminalFor(out, prompt_id)

\* C8: get_queue_size_before returns 0 exactly when the job identifier is
\* at some position of the running sequence, whatever pending contains.
C8_ZeroIffRunning ==
    q_result[1] \in {"return", "ValueError"}
        => ((q_result = <<"return", 0>>) <=> (q_prompt_id \in Range(queue_running)))

C8_Witness ==
    /\ q_result = <<"return", 0>>
    /\ Len(queue_running) >= 2
    /\ queue_running[1] /= q_prompt_id
    /\ q_prompt_id \in Range(queue_pending)

\* the first (1-based) position of pid in ids
FirstPos(ids, pid) ==
    CHOOSE k \in DOMAIN ids : ids[k] = pid /\ \A j \in 1..(k - 1) : ids[j] /= pid

\* C9 as amended: for a job identifier that is not in the running sequence,
\* get_queue_size_before returns k when the first occurrence of the
\* identifier in pending is at 0-based position k-1, whatever else the
\* running sequence contains.
C9_PendingPosition ==
    (/\ q_result[1] \in {"return", "ValueError"}
     /\ q_prompt_id \in Range(queue_pending)
     /\ q_prompt_id \notin Range(queue_running))
        => q_result = <<"return", FirstPos(queue_pending, q_prompt_id)>>

C9_Witness ==
    /\ q_result = <<"return", 2>>
    /\ queue_pending[2] = q_prompt_id
    /\ queue_running /= <<>>

\* C9 as stated: k for the first occurrence in pending, independent of the
\* contents of the running sequence.
C9_Original ==
    (/\ q_result[1] \in {"return", "ValueError"}
     /\ q_prompt_id \in Range(queue_pending))
        => q_result = <<"return", FirstPos(queue_pending, q_prompt_id)>>

\* C10: get_queue_size_before raises ValueError if and only if the job
\* identifier is in neither sequence; it returns no number for such an
\* identifier.
C10_ValueErrorIffAbsent ==
    q_result[1] \in {"return", "ValueError"}
        => ((q_result[1] = "ValueError")
                <=> (q_prompt_id \notin Range(queue_running) \cup Range(queue_pending)))

C10_Witness ==
    /\ q_result[1] = "ValueError"
    /\ queue_running /= <<>>
    /\ queue_pending /= <<>>

\* C15: receiving an `executing` event whose node is not None, or whose job
\* identifier is not the captured one (even with node None), leaves the wait
\* running; an `executing` event ends the wait only with node None and the
\* captured identifier.
C15_ExecutingNeedsNoneAndOwnId ==
    [][ (Receives /\ Head(chan).text /\ Head(chan).type = "executing")
            => IF Head(chan).node = None /\ Head(chan).prompt_id = prompt_id
               THEN pc' = "returned"
               ELSE /\ pc' = "waiting"
                    /\ wsOpen'
                    /\ result' = NoId
                    /\ error' = "none"
                    /\ chan' = Tail(chan)
      ]_vars

C15_Witness ==
    /\ pc = "waiting"
    /\ out.text
    /\ out.type = "executing"
    /\ out.node = None
    /\ out.prompt_id /= prompt_id
    /\ wsOpen
    /\ result = NoId
    /\ prompt_id \in Range(queue_pending)

\* C16: receiving a message that is not a text frame, or a text event whose
\* type is none of crystools.monitor, execution_error, status, executing,
\* neither resolves nor fails the wait; the loop drops it and reads on.
C16_OtherMessagesIgnored ==
    [][ (/\ Receives
         /\ \/ ~Head(chan).text
            \/ Head(chan).type \notin
                 {"crystools.monitor", "execution_error", "status", "executing"})
            => /\ pc' = "waiting"
               /\ wsOpen'
               /\ result' = NoId
               /\ error' = "none"
               /\ chan' = Tail(chan)
      ]_vars

C16_Witness ==
    /\ pc = "waiting"
    /\ out = ProgressMsg
    /\ chan /= <<>>
    /\ Head(chan) = BinaryMsg

\* C18: whenever queue_prompt_and_wait has ended, by returning the job
\* identifier or by raising, its websocket is closed and holds nothing to
\* read, and no message is received after the end.
C18_EndedMeansClosed ==
    [][ /\ (pc' \in {"returned", "failed"}) => (~wsOpen' /\ chan' = <<>>)
        /\ (pc \in {"returned", "failed"}) => (out' = out /\ pc' = pc /\ ~Receives)
      ]_vars

C18_Witness ==
    /\ pc = "failed"
    /\ error = "ExecutionError"
    /\ ~wsOpen
    /\ out.type = "execution_error"

\* C17: one call of queue_prompt_and_wait sends POST /prompt at most once;
\* a websocket is only ever opened after that one POST was accepted, and
\* with the client_id that was posted; a call whose submission failed has
\* posted once, has opened no websocket and has received no message.
C17_SubmittedOnceBeforeChannel ==
    /\ Len(posts) <= 1
    /\ (pc /= "start") => (Len(posts) = 1 /\ posts[1] = client_id /\ client_id \in Uuids)
    /\ (wsOpen \/ ws_client_id /= NoClient)
          => (Len(posts) = 1 /\ ws_client_id = posts[1] /\ prompt_id /= NoId)
    /\ (pc = "failed" /\ error \in {"RequestFailed", "KeyError"})
          => (/\ Len(posts) = 1
              /\ ws_client_id = NoClient
              /\ ~wsOpen
              /\ chan = <<>>
              /\ out = NoMsg
              /\ prompt_id = NoId)

C17_Witness ==
    /\ pc = "failed"
    /\ error = "RequestFailed"
    /\ Len(posts) = 1
    /\ ws_client_id = NoClient
    /\ nOther > 0
    /\ queue_running /= <<>>

(***************************************************************************)
(* Result collection.                                                      *)
(***************************************************************************)
Views == SelectSeq(http_log, LAMBDA e : e.req = "view")

ChecksPass ==
    /\ history.got
    /\ history.has_prompt
    /\ history.has_outputs
    /\ OutputNode \in history.nodes

\* the list the priority images, gifs, videos selects in the output entry
PriorityList ==
    LET d == history.output_data
    IN  IF "images" \in d.keys THEN d.images
        ELSE IF "gifs" \in d.keys THEN d.gifs
        ELSE d.videos

FetchedInOrder ==
    /\ Len(Views) <= Len(PriorityList)
    /\ \A i \in 1..Len(Views) :
          /\ Views[i].filename = PriorityList[i].filename
          /\ Views[i].subfolder = PriorityList[i].subfolder
          /\ Views[i].type = PriorityList[i].type

BytesOf(a) == Content(a.filename, a.subfolder, a.type)

\* C11 as stated: the list is chosen by the priority images, gifs, videos,
\* only that list is fetched, artifact by artifact by its (filename,
\* subfolder, type), and the returned dict maps the filename of every artifact
\* of the list to the bytes fetched for that artifact.
C11_Original ==
    (ChecksPass /\ history.output_data.keys /= {})
        => /\ ipc \in {"fetching", "done", "failed"}
           /\ FetchedInOrder
           /\ ret.done
                => /\ Len(Views) = Len(PriorityList)
                   /\ \A i \in 1..Len(PriorityList) :
                        <<PriorityList[i].filename, BytesOf(PriorityList[i])>>
                            \in ret.value

\* C11 (amended): the list is chosen by the priority images, gifs, videos
\* (an empty images list wins over present gifs or videos), only that list is
\* fetched, in order, each artifact by its (filename, subfolder, type), and
\* the returned dict has exactly the filenames of the list as keys, each
\* mapped to the bytes fetched for the LAST artifact of the list with that
\* filename: artifacts sharing a filename collapse into one entry.
C11_PriorityAndLastWins ==
    (ChecksPass /\ history.output_data.keys /= {})
        => /\ ipc \in {"fetching", "done", "failed"}
           /\ FetchedInOrder
           /\ ret.done
                => /\ Len(Views) = Len(PriorityList)
                   /\ ret.value =
                        {<<PriorityList[i].filename, BytesOf(PriorityList[i])>> :
                            i \in {j \in 1..Len(PriorityList) :
                                     \A k \in (j + 1)..Len(PriorityList) :
                                        PriorityList[k].filename
                                            /= PriorityList[j].filename}}

C11_Witness ==
    /\ ret.done
    /\ history.output_data.keys = {"gifs", "videos"}
    /\ history.output_data.videos /= <<>>
    /\ Len(history.output_data.gifs) = 2
    /\ history.output_data.gifs[1].filename = history.output_data.gifs[2].filename
    /\ history.output_data.gifs[1] /= history.output_data.gifs[2]
    /\ Len(Views) = 2

\* C12: when the job identifier is absent from the history response, or its
\* record has no outputs, or the output node is absent from outputs, or the
\* output entry has none of the keys images, gifs, videos, the call fails
\* with KeyError, returns nothing and has issued no artifact fetch.
C12_MissingMeansKeyError ==
    (history.got /\ (~history.has_prompt \/ ~history.has_outputs
                        \/ OutputNode \notin history.nodes
                        \/ history.output_data.keys \cap Kinds = {}))
        => /\ ipc = "failed"
           /\ ierror = "KeyError"
           /\ ~ret.done
           /\ Views = <<>>
           /\ Len(http_log) = 1

C12_Witness ==
    /\ ChecksPass
    /\ history.output_data.keys = {}
    /\ ipc = "failed"
    /\ ierror = "KeyError"

\* C20: once the fetch of an artifact has failed the call has failed with
\* that request error, nothing is returned and no further artifact is
\* fetched; a returned dict holds only bytes of successful fetches of
\* artifacts of the chosen list, and every fetch of that call succeeded.
C20_AllOrNothing ==
    /\ \A i \in 1..Len(http_log) :
          (http_log[i].req = "view" /\ ~http_log[i].ok)
              => /\ i = Len(http_log)
                 /\ ipc = "failed"
                 /\ ierror = "RequestFailed"
                 /\ ~ret.done
    /\ ret.done
          => /\ ipc = "done"
             /\ \A i \in 1..Len(http_log) : http_log[i].ok
             /\ \A e \in ret.value :
                   \E i \in 1..Len(Views) :
                      /\ Views[i].ok
                      /\ e = <<Views[i].filename,
                               Content(Views[i].filename, Views[i].subfolder,
                                       Views[i].type)>>
                      /\ i <= Len(PriorityList)
                      /\ BytesOf(PriorityList[i]) = e[2]

C20_Witness ==
    /\ ipc = "failed"
    /\ ierror = "RequestFailed"
    /\ Len(Views) = 2
    /\ Views[1].ok
    /\ ~Views[2].ok
    /\ images /= {}
    /\ ~ret.done

\* C19: in queue_and_wait_images the history is requested only once the wait
\* has returned, and for the job identifier it returned; artifacts are
\* fetched only after a successful history request whose checks passed; when
\* the wait failed with ExecutionError no history request and no artifact
\* fetch is ever issued and the call fails with that error.
C19_WaitThenHistoryThenFetch ==
    /\ (http_log /= <<>>)
          => /\ pc = "returned"
             /\ http_log[1].req = "history"
             /\ http_log[1].id = result
             /\ result = prompt_id
             /\ \A i \in 2..Len(http_log) : http_log[i].req = "view"
    /\ (Views /= <<>>)
          => /\ http_log[1].ok
             /\ ChecksPass
             /\ history.output_data.keys \cap Kinds /= {}
    /\ (pc = "failed" /\ error = "ExecutionError")
          => /\ http_log = <<>>
             /\ ~history.got
             /\ ~ret.done
             /\ ipc \in {"wait", "failed"}
             /\ (ipc = "failed") => (ierror = "ExecutionError")

C19_Witness ==
    /\ ipc = "failed"
    /\ ierror = "ExecutionError"
    /\ pc = "failed"
    /\ http_log = <<>>
    /\ out.type = "execution_error"

(***************************************************************************)
(* The queue during the wait.                                              *)
(***************************************************************************)
\* this step is a call of get_queue_size_before that changed what the caller
\* knows
Inspects == <<q_prompt_id', q_result'>> /= <<q_prompt_id, q_result>>

InQueue(pid) == pid \in Range(queue_pending) \cup Range(queue_running)

\* C13 as stated: from the acceptance of the job until the wait has ended on
\* a terminal event, every inspection of the queue finds the job identifier
\* in running or pending and does not fail with ValueError.
C13_Original ==
    [][ (Inspects /\ pc \in {"submitted", "waiting"})
            => /\ InQueue(prompt_id)
               /\ q_result'[1] /= "ValueError" ]_vars

\* C13 (amended): an inspection for the submitted job finds its identifier in
\* running or pending, and returns a position, exactly as long as the server
\* has not finished or failed the job; from then on it fails with ValueError,
\* and that moment can precede the moment the wait reads the terminal event
\* (or the wait may never read it), so an inspection can fail while the wait
\* is still going on.  Only a failed GET /queue gives another outcome.
C13_InQueueUntilServerEnds ==
    [][ Inspects
            => /\ q_prompt_id' = prompt_id
               /\ prompt_id /= NoId
               /\ InQueue(prompt_id)
                    => q_result' \in {<<"RequestFailed", 0>>,
                                      <<"return",
                                        IF prompt_id \in Range(queue_running)
                                        THEN 0
                                        ELSE FirstPos(queue_pending, prompt_id)>>}
               /\ ~InQueue(prompt_id)
                    => q_result' \in {<<"RequestFailed", 0>>, <<"ValueError", 0>>} ]_vars

C13_Witness ==
    /\ pc = "waiting"
    /\ q_prompt_id = prompt_id
    /\ q_result = <<"ValueError", 0>>
    /\ ~InQueue(prompt_id)
    /\ chan /= <<>>
    /\ TerminalExecuting(Head(chan), prompt_id)

(***************************************************************************)
(* Submission before the websocket is open.                                *)
(***************************************************************************)
\* C14 as stated: in every interleaving, once the server has finished the
\* accepted job (it has left the queue; no job fails in SpecFair), the wait
\* eventually returns the job identifier; only a failure to open the
\* websocket excuses it.
C14_FinishedLeadsToReturn ==
    (prompt_id /= NoId /\ ~(prompt_id \in Range(queue_pending) \cup Range(queue_running)))
        ~> \/ pc = "returned" /\ result = prompt_id
           \/ pc = "failed" /\ error = "ConnectFailed"

=============================================================================
